---- MODULE Spec2Model ----
(***************************************************************************)
(* Model of the MyxBoard result-lifecycle manager of remyxai-cli:          *)
(* remyxai/client/myxboard.py (MyxBoard), remyxai/client/remyx_client.py   *)
(* (RemyxAPI), remyxai/api/myxboard.py and remyxai/api/tasks.py (the       *)
(* remote client), remyxai/api/evaluations.py (the polling loop) and       *)
(* remyxai/utils/myxboard.py (pure helpers).                               *)
(*                                                                         *)
(* The remote service is not part of the repository.  It is modelled as a  *)
(* passive store: it keeps the payload of the last successful create or    *)
(* update request of a key and answers list/download with it; every        *)
(* request may also fail (non-success status) or raise (network error).    *)
(***************************************************************************)
EXTENDS Integers, Sequences, FiniteSets, TLC

VARIABLES board, remote, jobs, poll, apiResults, cli, stored, reply

vars == <<board, remote, jobs, poll, apiResults, cli, stored, reply>>

-----------------------------------------------------------------------------
(* Bounds of the model *)

\* number of jobs the remote service hands out
MaxJobs == 1

\* number of model entries of a benchmark answer
MaxEvals == 2

-----------------------------------------------------------------------------
(* Python values *)

\* the empty dict
EmptyDict == [k \in {} |-> 0]

Range(s) == {s[i] : i \in DOMAIN s}

\* dict.get(key, default) on a dict modelled as a function
Get(d, k, default) == IF k \in DOMAIN d THEN d[k] ELSE default

\* d[k] = v on a dict modelled as a function
Put(d, k, v) == [x \in DOMAIN d \cup {k} |-> IF x = k THEN v ELSE d[x]]

-----------------------------------------------------------------------------
(* Model identifiers.  An identifier is the sequence of its "/"-separated  *)
(* parts: "org/Qwen2-1.5B" is <<"org", "Qwen2-1.5B">>.                     *)

MYXMATCH_SUPPORTED_MODELS ==
    << "Phi-3-mini-4k-instruct", "BioMistral-7B", "CodeLlama-7b-Instruct-hf",
       "gorilla-openfunctions-v2", "Llama-2-7b-hf", "Mistral-7B-Instruct-v0.3",
       "Meta-Llama-3-8B", "Meta-Llama-3-8B-Instruct", "Qwen2-1.5B",
       "Qwen2-1.5B-Instruct" >>

Phi == <<"Phi-3-mini-4k-instruct">>
Qwen == <<"Qwen2-1.5B">>
HfQwen == <<"org", "Qwen2-1.5B">>
Gpt3 == <<"gpt-3">>
GptNeo == <<"gpt-neo">>

\* the model lists handed to the constructor
InputModelLists ==
    { <<>>, <<Phi>>, <<HfQwen, Phi>>,
      <<Phi, Gpt3>>, <<Gpt3, GptNeo>>, <<GptNeo, Phi, Gpt3>> }

\* myxboard.py:85-88 and tasks.py:14-17: map a Hugging Face repo id to the
\* supported name ("/" in model -> model.split("/")[1])
MappedModel(model) == IF Len(model) > 1 THEN model[2] ELSE model[1]

IsSupported(model) == MappedModel(model) \in Range(MYXMATCH_SUPPORTED_MODELS)

\* the unsupported entries of a list, in list order
RECURSIVE Unsupported(_)
Unsupported(models) ==
    IF models = <<>> THEN <<>>
    ELSE (IF IsSupported(Head(models)) THEN <<>> ELSE <<Head(models)>>)
         \o Unsupported(Tail(models))

\* MyxBoard._validate_models: the models the raised ValueError names; <<>> when
\* validation passes.  The loop raises at the first unsupported model.
ValidateModels(models) ==
    IF Unsupported(models) = <<>> THEN <<>> ELSE <<Head(Unsupported(models))>>

-----------------------------------------------------------------------------
(* Board names.  A name is a sequence of characters.                       *)

NameSlash == <<"a", "/", "b">>

\* name=None (and the falsy name "")
NoName == <<>>

\* the names handed to the constructor
Names == {NameSlash}

\* the names a program assigns to board.name afterwards
NamePlain == <<"c">>
AssignedNames == {NameSlash, NamePlain}

\* str.replace("/", "--")
RECURSIVE ReplaceSlash(_)
ReplaceSlash(name) ==
    IF name = <<>> THEN <<>>
    ELSE (IF Head(name) = "/" THEN <<"-", "-">> ELSE <<Head(name)>>)
         \o ReplaceSlash(Tail(name))

\* urllib.parse.quote(s, safe=""): unreserved characters are kept, every
\* other character is percent-encoded
Unreserved == {"a", "b", "c", "-", "_", ".", "~"}

PercentCode(ch) == IF ch = "/" THEN <<"%", "2", "F">>
                   ELSE IF ch = " " THEN <<"%", "2", "0">>
                   ELSE <<"%", "?", "?">>

RECURSIVE Quote(_)
Quote(s) ==
    IF s = <<>> THEN <<>>
    ELSE (IF Head(s) \in Unreserved THEN <<Head(s)>> ELSE PercentCode(Head(s)))
         \o Quote(Tail(s))

\* MyxBoard._sanitize_name
SanitizeName(name) == Quote(ReplaceSlash(name))

Keys == {SanitizeName(n) : n \in Names}

-----------------------------------------------------------------------------
(* Evaluation tasks and results *)

MYXMATCH == "myxmatch"
LIGHTEVAL_ARITHMETIC == "lighteval_arithmetic"

\* EvaluationTask values used by the model
Tasks == {MYXMATCH, LIGHTEVAL_ARITHMETIC}

\* raw ranked-match payloads ({"models": [{"model", "rank"}, ...]}); the
\* scoring of the remote service is opaque
PayloadRanked == << [model |-> Phi, rank |-> 2], [model |-> Qwen, rank |-> 1] >>
PayloadTied == << [model |-> Qwen, rank |-> 1], [model |-> Phi, rank |-> 1] >>

Payloads == {PayloadRanked, PayloadTied}

\* self.results: None or a dict whose keys are "job_status" and task names.
\*   isNone - the value is None
\*   hasJS  - the key "job_status" is present;  js - its value (task -> entry)
\*   cached - the task keys and their payloads
EmptyResults == [isNone |-> FALSE, hasJS |-> FALSE, js |-> EmptyDict, cached |-> EmptyDict]
NoneResults == [isNone |-> TRUE, hasJS |-> FALSE, js |-> EmptyDict, cached |-> EmptyDict]

\* key in self.results
HasKey(res, k) == \/ (k = "job_status" /\ res.hasJS)
                  \/ k \in DOMAIN res.cached

\* Python truthiness of self.results (None and {} are falsy)
Truthy(res) == ~res.isNone /\ (res.hasJS \/ DOMAIN res.cached # {})

\* self.results.get("job_status", {})
JobTable(res) == IF res.hasJS THEN res.js ELSE EmptyDict

-----------------------------------------------------------------------------
(* The remote store and the outcome of a request *)

\* "ok": success status; "error": non-success status (the api function
\* returns {"error": ...}); "exception": requests raises
Responses == {"ok", "error", "exception"}

\* the answers to the requests of one operation: at most one kind of request
\* fails while an operation runs
AllOk == [list |-> "ok", download |-> "ok", store |-> "ok", status |-> "ok",
          fetch |-> "ok", payload |-> PayloadRanked, update |-> "ok"]

ConstructNets ==
    {AllOk, [AllOk EXCEPT !.list = "error"]}
    \cup {[AllOk EXCEPT !.download = r] : r \in {"error", "exception"}}
    \cup {[AllOk EXCEPT !.store = r] : r \in {"error", "exception"}}

GetResultsNets ==
    {AllOk, [AllOk EXCEPT !.status = "error"]}
    \cup {[AllOk EXCEPT !.fetch = r] : r \in {"empty", "exception"}}
    \cup {[AllOk EXCEPT !.update = r] : r \in {"error", "exception"}}

\* the Python variables that hold a board
Handles == {"b1"}

AbsentRecord == [exists |-> FALSE, models |-> <<>>, results |-> NoneResults]

NoBoard == [alive |-> FALSE, name |-> NoName, sanitized_name |-> NoName, models |-> <<>>,
            results |-> EmptyResults, job_status |-> EmptyDict]

\* the value get_results returns
NoOut == [kind |-> "none", all |-> NoneResults, entries |-> EmptyDict]

\* store_myxboard: payload {"name", "models", "results": results or None};
\* the service creates the record of a key it does not hold yet
StoreMyxboard(rem, key, models, results, resp) ==
    IF resp = "ok" /\ ~rem[key].exists
    THEN [rem EXCEPT ![key] =
            [exists |-> TRUE, models |-> models,
             results |-> IF Truthy(results) THEN results ELSE NoneResults]]
    ELSE rem

\* a service that would keep the results of the record an update does not
\* name
UpdateMyxboardMerging(rem, key, models, results, resp) ==
    IF resp = "ok" /\ rem[key].exists
    THEN LET old == rem[key].results.cached
             new == results.cached
         IN [rem EXCEPT ![key] =
               [exists |-> TRUE, models |-> models,
                results |-> [isNone |-> FALSE, hasJS |-> results.hasJS,
                             js |-> results.js,
                             cached |-> [t \in DOMAIN old \cup DOMAIN new |->
                                           IF t \in DOMAIN new THEN new[t] ELSE old[t]]]]]
    ELSE rem

\* update_myxboard: payload {"models", "results": results or {}, ...};
\* the service replaces the record of a key it holds
UpdateMyxboard(rem, key, models, results, resp) ==
    IF resp = "ok" /\ rem[key].exists
    THEN [rem EXCEPT ![key] =
            [exists |-> TRUE, models |-> models,
             results |-> IF Truthy(results) THEN results ELSE EmptyResults]]
    ELSE rem

\* delete_myxboard
DeleteMyxboard(rem, key, resp) ==
    IF resp = "ok" /\ rem[key].exists
    THEN [rem EXCEPT ![key] = AbsentRecord]
    ELSE rem

\* MyxBoard._get_existing_myxboard: a failed listing is logged and answered
\* with None, like a listing without the board
GetExistingMyxboard(rem, key, resp) == resp = "ok" /\ rem[key].exists

\* MyxBoard._populate_from_existing: results_data.get("results", {}) of the
\* downloaded record; a failed download answers {"error": ...}
DownloadedResults(rem, key, resp) ==
    IF resp = "ok" /\ rem[key].exists THEN rem[key].results ELSE EmptyResults

\* results_data.get("job_status", {}): the record carries no such key
DownloadedJobStatus(rem, key, resp) == EmptyDict

-----------------------------------------------------------------------------
(* MyxBoard.__init__.  Every operation is an operator from the state it    *)
(* reads to the state it leaves, the exception it raises ("none": it       *)
(* returns) and the requests it has sent; the action applies it.           *)

\* a call that raises before it changes anything
Raises(old, rem, raised, named, calls) ==
    [board |-> old, rem |-> rem, raised |-> raised, named |-> named, calls |-> calls]

\* a plausible slip: the board keeps the mapped names, not the given ids
InitialModelsMapped(model_repo_ids) ==
    [i \in DOMAIN model_repo_ids |-> <<MappedModel(model_repo_ids[i])>>]

\* self.models = model_repo_ids or []   (an absent list is <<>>)
InitialModels(model_repo_ids) == model_repo_ids

\* old is the value the variable holds before; it keeps it when the
\* constructor raises
ConstructCall(old, rem, model_repo_ids, name, rList, rDown, rStore) ==
    LET ids == InitialModels(model_repo_ids) IN
    IF name = NoName
    THEN \* self._sanitize_name(None)
         Raises(old, rem, "AttributeError", <<>>, {})
    ELSE IF ValidateModels(ids) # <<>>
    THEN Raises(old, rem, "ValueError", ValidateModels(ids), {})
    ELSE LET key == SanitizeName(name) IN
         IF GetExistingMyxboard(rem, key, rList)
         THEN IF rDown = "exception"
              THEN Raises(old, rem, "RequestException", <<>>, {"list", "download"})
              ELSE [board |-> [alive |-> TRUE, name |-> name, sanitized_name |-> key,
                               models |-> rem[key].models,
                               results |-> DownloadedResults(rem, key, rDown),
                               job_status |-> DownloadedJobStatus(rem, key, rDown)],
                    rem |-> rem, raised |-> "none", named |-> <<>>,
                    calls |-> {"list", "download"}]
         ELSE IF rStore = "exception"
              THEN Raises(old, rem, "RequestException", <<>>, {"list", "store"})
              ELSE [board |-> [alive |-> TRUE, name |-> name, sanitized_name |-> key,
                               models |-> ids,
                               results |-> EmptyResults, job_status |-> EmptyDict],
                    rem |-> StoreMyxboard(rem, key, ids, EmptyResults, rStore),
                    raised |-> "none", named |-> <<>>, calls |-> {"list", "store"}]

Construct(b, ids, name, rList, rDown, rStore) ==
    LET r == ConstructCall(board[b], remote, ids, name, rList, rDown, rStore) IN
    /\ board' = [board EXCEPT ![b] = r.board]
    /\ remote' = r.rem
    /\ UNCHANGED <<cli, stored, reply, jobs, poll, apiResults>>

\* board.name = name on a constructed board: a plain attribute; the
\* attribute _sanitized_name is written by __init__ only
SetName(b, name) ==
    /\ board[b].alive
    /\ board' = [board EXCEPT ![b].name = name]
    /\ UNCHANGED <<cli, stored, reply, remote, jobs, poll, apiResults>>

-----------------------------------------------------------------------------
(* MyxBoard._save_updates / save / delete *)

\* _save_updates: an {"error": ...} answer is logged, an exception re-raised
SaveUpdates(brec, rem, resp) ==
    [board |-> brec,
     rem |-> UpdateMyxboard(rem, brec.sanitized_name, brec.models, brec.results, resp),
     raised |-> IF resp = "exception" THEN "RequestException" ELSE "none",
     named |-> <<>>, calls |-> {"update"}]

SaveCall(brec, rem, resp) == SaveUpdates(brec, rem, resp)

Save(b, resp) ==
    /\ board[b].alive
    /\ remote' = SaveCall(board[b], remote, resp).rem
    /\ UNCHANGED <<cli, stored, reply, board, jobs, poll, apiResults>>

DeleteCall(brec, rem, resp) ==
    [board |-> brec,
     rem |-> DeleteMyxboard(rem, brec.sanitized_name, resp),
     raised |-> IF resp = "exception" THEN "RequestException" ELSE "none",
     named |-> <<>>, calls |-> {"delete"}]

Delete(b, resp) ==
    /\ board[b].alive
    /\ remote' = DeleteCall(board[b], remote, resp).rem
    /\ UNCHANGED <<cli, stored, reply, board, jobs, poll, apiResults>>

-----------------------------------------------------------------------------
(* Remote jobs *)

JobNames == 1..MaxJobs

\* job_response.get("job_name") of an {"error": ...} answer: None
NoJob == 0

\* The status the service reports for a job.  "none": not submitted yet.
\* The client expects "completed" in RemyxAPI.check_job_status and in
\* handle_long_running_task, and "COMPLETED" in MyxBoard.get_results; the
\* service may answer either.
CompletedStatuses == {"completed", "COMPLETED"}
TerminalStatuses == CompletedStatuses \cup {"failed"}

FreeJobs == {j \in JobNames : jobs[j] = "none"}

\* get_job_status: HTTP, request and JSON errors answer {"status": "error"}
GetJobStatus(jobTable, job_name, resp) ==
    IF resp = "ok" /\ job_name \in JobNames /\ jobTable[job_name] # "none"
    THEN jobTable[job_name]
    ELSE "error"

\* the remote job makes progress: pending -> running -> completed | failed
JobAdvance(j) ==
    /\ \/ jobs[j] = "pending" /\ jobs' = [jobs EXCEPT ![j] = "running"]
       \/ jobs[j] = "running" /\ \E s \in TerminalStatuses : jobs' = [jobs EXCEPT ![j] = s]
    /\ UNCHANGED <<cli, stored, reply, board, remote, poll, apiResults>>

-----------------------------------------------------------------------------
(* RemyxAPI.evaluate / RemyxAPI.check_job_status *)

TaskLists == {<<MYXMATCH>>, <<LIGHTEVAL_ARITHMETIC>>, <<MYXMATCH, LIGHTEVAL_ARITHMETIC>>}

Prompts == {"", "p"}

\* a plausible slip: the job is submitted before the prompt is looked at
RECURSIVE EvaluateLoopLateCheck(_, _, _, _)
EvaluateLoopLateCheck(tasks, prompt, resp, st) ==
    IF tasks = <<>> \/ st.raised # "none" THEN st
    ELSE IF Head(tasks) # MYXMATCH
    THEN EvaluateLoopLateCheck(Tail(tasks), prompt, resp, st)
    ELSE [st EXCEPT !.raised = IF prompt = "" THEN "ValueError" ELSE "none",
                    !.calls = @ \cup {"submit"}]

\* one pass of the loop "for task in tasks" of RemyxAPI.evaluate over the
\* state st = [res, jobs, raised, calls]
RECURSIVE EvaluateLoop(_, _, _, _)
EvaluateLoop(tasks, prompt, resp, st) ==
    IF tasks = <<>> \/ st.raised # "none" THEN st
    ELSE LET task == Head(tasks) IN
         IF task # MYXMATCH
         THEN EvaluateLoop(Tail(tasks), prompt, resp, st)
         ELSE IF prompt = ""
         THEN [st EXCEPT !.raised = "ValueError"]
         ELSE IF resp = "exception"
         THEN [st EXCEPT !.raised = "RequestException", !.calls = @ \cup {"submit"}]
         ELSE LET submitted == resp = "ok" /\ {j \in JobNames : st.jobs[j] = "none"} # {}
                  j == IF submitted
                       THEN CHOOSE x \in JobNames : /\ st.jobs[x] = "none"
                                                     /\ \A y \in JobNames : st.jobs[y] = "none" => x <= y
                       ELSE NoJob
                  entry == [job_name |-> j, status |-> "pending"]
              IN EvaluateLoop(Tail(tasks), prompt, resp,
                    [st EXCEPT !.res.js = Put(@, task, entry),
                               !.jobs = IF submitted THEN [@ EXCEPT ![j] = "pending"] ELSE @,
                               !.calls = @ \cup {"submit"}])

EvaluateCall(brec, jobTable, tasks, prompt, resp) ==
    IF brec.results.isNone
    THEN \* "job_status" not in None
         [board |-> brec, jobs |-> jobTable, raised |-> "TypeError", calls |-> {}]
    ELSE LET st0 == [res |-> [brec.results EXCEPT !.hasJS = TRUE],
                     jobs |-> jobTable, raised |-> "none", calls |-> {}]
             st == EvaluateLoop(tasks, prompt, resp, st0)
         IN [board |-> [brec EXCEPT !.results = st.res], jobs |-> st.jobs,
             raised |-> st.raised, calls |-> st.calls]

Evaluate(b, tasks, prompt, resp) ==
    /\ board[b].alive
    /\ FreeJobs # {}
    /\ LET r == EvaluateCall(board[b], jobs, tasks, prompt, resp) IN
       /\ board' = [board EXCEPT ![b] = r.board]
       /\ jobs' = r.jobs
    /\ UNCHANGED <<cli, stored, reply, remote, poll, apiResults>>

\* the board key in the URL of the job RemyxAPI.evaluate submits:
\* run_myxmatch(myx_board.name, ...) encodes the name it is given
RunMyxmatchKey(brec) == Quote(ReplaceSlash(brec.name))

\* the loop of RemyxAPI.check_job_status: every entry of the job table gets
\* the reported status
CheckedTable(js, jobTable, resp) ==
    [t \in DOMAIN js |->
        [js[t] EXCEPT !.status = GetJobStatus(jobTable, js[t].job_name, resp)]]

CheckJobStatusCall(brec, jobTable, resp) ==
    IF brec.results.isNone
    THEN \* None.get("job_status", {})
         [board |-> brec, raised |-> "AttributeError", calls |-> {}]
    ELSE [board |-> [brec EXCEPT !.results.js = CheckedTable(JobTable(brec.results), jobTable, resp)],
          raised |-> "none",
          calls |-> IF DOMAIN JobTable(brec.results) = {} THEN {} ELSE {"status"}]

CheckJobStatus(b, resp) ==
    /\ board[b].alive
    /\ board' = [board EXCEPT ![b] = CheckJobStatusCall(board[b], jobs, resp).board]
    /\ UNCHANGED <<cli, stored, reply, remote, jobs, poll, apiResults>>

-----------------------------------------------------------------------------
(* Reordering by rank *)

\* list.sort(key=rank) is stable: insert x behind every element whose rank is
\* not greater
RECURSIVE InsertByRank(_, _)
InsertByRank(x, sorted) ==
    IF sorted = <<>> THEN <<x>>
    ELSE IF x.rank < Head(sorted).rank THEN <<x>> \o sorted
    ELSE <<Head(sorted)>> \o InsertByRank(x, Tail(sorted))

RECURSIVE SortByRank(_)
SortByRank(ranked) ==
    IF ranked = <<>> THEN <<>>
    ELSE InsertByRank(ranked[Len(ranked)], SortByRank(SubSeq(ranked, 1, Len(ranked) - 1)))

\* utils/myxboard.py _reorder_models_by_results(results, task_name): results
\* maps a task name to its payload
ReorderModelsByResults(results, task_name) ==
    LET ranked_models == SortByRank(Get(results, task_name, <<>>))
    IN [i \in DOMAIN ranked_models |-> ranked_models[i].model]

-----------------------------------------------------------------------------
(* MyxBoard.update_results *)

UpdateResultsCall(brec, rem, task, payload, resp) ==
    IF brec.results.isNone
    THEN \* None[task] = ...
         Raises(brec, rem, "TypeError", <<>>, {})
    ELSE LET res == [brec.results EXCEPT !.cached = Put(@, task, payload)] IN
         IF task = MYXMATCH /\ ~HasKey(res, "results")
         THEN \* MyxBoard._reorder_models_by_results: self.results["results"]
              Raises([brec EXCEPT !.results = res], rem, "KeyError", <<>>, {})
         ELSE LET models == IF task = MYXMATCH
                            THEN ReorderModelsByResults(res.cached["results"], task)
                            ELSE brec.models
              IN SaveUpdates([brec EXCEPT !.results = res, !.models = models], rem, resp)

UpdateResults(b, task, payload, resp) ==
    /\ board[b].alive
    /\ LET r == UpdateResultsCall(board[b], remote, task, payload, resp) IN
       /\ board' = [board EXCEPT ![b] = r.board]
       /\ remote' = r.rem
    /\ UNCHANGED <<cli, stored, reply, jobs, poll, apiResults>>

-----------------------------------------------------------------------------
(* MyxBoard.get_results *)

\* the answers of download_evaluation
FetchResponses == {"ok", "empty", "exception"}

Filters == {<<>>, <<MYXMATCH>>, <<LIGHTEVAL_ARITHMETIC, MYXMATCH>>}

\* what get_results returns for one task
Entry(kind, status, job_name, payload) ==
    [kind |-> kind, status |-> status, job_name |-> job_name, payload |-> payload]

\* download_evaluation(task, sanitized_name)
DownloadEvaluation(rFetch, payload) ==
    IF rFetch = "ok" THEN [raised |-> FALSE, value |-> payload]
    ELSE IF rFetch = "empty" THEN [raised |-> FALSE, value |-> <<>>]
    ELSE [raised |-> TRUE, value |-> <<>>]

\* MyxBoard._fetch_evaluation_results on st = [res, rem, calls]; the result
\* carries the returned value in "entry"
FetchEvaluationResults(st, key, models, task, rFetch, payload, rSave) ==
    LET eval_results == DownloadEvaluation(rFetch, payload)
        calls == st.calls \cup {"fetch"}
    IN IF eval_results.raised
       THEN [res |-> st.res, rem |-> st.rem, calls |-> calls,
             entry |-> Entry("error", "", NoJob, <<>>)]
       ELSE IF eval_results.value = <<>>
       THEN [res |-> st.res, rem |-> st.rem, calls |-> calls,
             entry |-> Entry("null", "", NoJob, <<>>)]
       ELSE LET res == [st.res EXCEPT !.cached = Put(@, task, eval_results.value),
                                      !.js[task].status = "COMPLETED"]
            IN [res |-> res,
                rem |-> UpdateMyxboard(st.rem, key, models, res, rSave),
                calls |-> calls \cup {"update"},
                entry |-> IF rSave = "exception"
                          THEN Entry("error", "", NoJob, <<>>)
                          ELSE Entry("result", "", NoJob, eval_results.value)]

\* the loop "for task_name in task_names" over st = [res, rem, calls, out]
RECURSIVE FilteredLoop(_, _, _, _, _, _, _, _, _)
FilteredLoop(task_names, st, key, models, jobTable, rStatus, rFetch, payload, rSave) ==
    IF task_names = <<>> THEN st
    ELSE LET task == Head(task_names)
             rest == Tail(task_names)
         IN
         IF HasKey(st.res, task)
         THEN FilteredLoop(rest,
                  [st EXCEPT !.out = Put(@, task, Entry("result", "", NoJob, st.res.cached[task]))],
                  key, models, jobTable, rStatus, rFetch, payload, rSave)
         ELSE IF task \notin DOMAIN st.res.js
         THEN FilteredLoop(rest, st, key, models, jobTable, rStatus, rFetch, payload, rSave)
         ELSE LET job_info == st.res.js[task]
                  job_status == GetJobStatus(jobTable, job_info.job_name, rStatus)
                  calls == st.calls \cup {"status"}
              IN IF job_status # "COMPLETED"
                 THEN FilteredLoop(rest,
                          [st EXCEPT !.calls = calls,
                                     !.out = Put(@, task, Entry("descriptor", job_status,
                                                               job_info.job_name, <<>>))],
                          key, models, jobTable, rStatus, rFetch, payload, rSave)
                 ELSE LET f == FetchEvaluationResults([st EXCEPT !.calls = calls], key, models,
                                                      task, rFetch, payload, rSave)
                      IN FilteredLoop(rest,
                             [res |-> f.res, rem |-> f.rem, calls |-> f.calls,
                              out |-> Put(st.out, task, f.entry)],
                             key, models, jobTable, rStatus, rFetch, payload, rSave)

\* the loop over self.results["job_status"].items() of the unfiltered call;
\* todo is the set of task keys still to visit
RECURSIVE UnfilteredLoop(_, _, _, _, _, _, _, _, _)
UnfilteredLoop(todo, st, key, models, jobTable, rStatus, rFetch, payload, rSave) ==
    IF todo = {} THEN st
    ELSE LET task == CHOOSE t \in todo : TRUE
             job_status == GetJobStatus(jobTable, st.res.js[task].job_name, rStatus)
             calls == st.calls \cup {"status"}
         IN IF job_status = "COMPLETED" /\ ~HasKey(st.res, task)
            THEN LET f == FetchEvaluationResults([st EXCEPT !.calls = calls], key, models,
                                                 task, rFetch, payload, rSave)
                 IN UnfilteredLoop(todo \ {task},
                        [res |-> f.res, rem |-> f.rem, calls |-> f.calls, out |-> st.out],
                        key, models, jobTable, rStatus, rFetch, payload, rSave)
            ELSE UnfilteredLoop(todo \ {task}, [st EXCEPT !.calls = calls],
                                key, models, jobTable, rStatus, rFetch, payload, rSave)

\* get_results on the board record brec, the store rem and the job table:
\* the board record and the store afterwards, the exception raised and the
\* value returned
GetResultsCall(brec, rem, jobTable, task_names, rStatus, rFetch, payload, rSave) ==
    IF brec.results.isNone
    THEN \* "job_status" not in None
         [board |-> brec, rem |-> rem, raised |-> "TypeError", out |-> NoOut, calls |-> {}]
    ELSE LET key == brec.sanitized_name
             st0 == [res |-> [brec.results EXCEPT !.hasJS = TRUE],
                     rem |-> rem, calls |-> {}, out |-> EmptyDict]
             st == IF task_names # <<>>
                   THEN FilteredLoop(task_names, st0, key, brec.models, jobTable,
                                     rStatus, rFetch, payload, rSave)
                   ELSE UnfilteredLoop(DOMAIN st0.res.js, st0, key, brec.models, jobTable,
                                       rStatus, rFetch, payload, rSave)
             out == IF task_names # <<>>
                    THEN [kind |-> "filtered", all |-> NoneResults, entries |-> st.out]
                    ELSE [kind |-> "all", all |-> st.res, entries |-> EmptyDict]
         IN [board |-> [brec EXCEPT !.results = st.res],
             rem |-> UpdateMyxboard(st.rem, key, brec.models, st.res, rSave),
             raised |-> IF rSave = "exception" THEN "RequestException" ELSE "none",
             out |-> IF rSave = "exception" THEN NoOut ELSE out,
             calls |-> st.calls \cup {"update"}]

GetResults(b, task_names, rStatus, rFetch, payload, rSave) ==
    /\ board[b].alive
    /\ UNCHANGED <<cli, stored, reply, jobs, poll, apiResults>>
    /\ LET r == GetResultsCall(board[b], remote, jobs, task_names,
                               rStatus, rFetch, payload, rSave)
       IN /\ board' = [board EXCEPT ![b] = r.board]
          /\ remote' = r.rem

-----------------------------------------------------------------------------
(* api/evaluations.py: handle_long_running_task and the board it updates *)

ApiModels == {Gpt3}

\* data['results'] of a completed job's status answer: per model a dict of
\* task values, per model a bare value, or no "results" key at all
ApiResultShapes == {"nested", "flat", "absent"}

\* api MyxBoard.update_results(results): self.results[model_id][task] = value
\* for every task of every model; a bare value has no .items()
ApiUpdateResults(results, shape) ==
    IF shape = "nested"
    THEN [raised |-> FALSE,
          results |-> [m \in DOMAIN results |-> Put(results[m], "myxmatch", "3.0")]]
    ELSE [raised |-> TRUE, results |-> results]

\* api MyxBoard.initialize_results_dataframe
InitializeResults(model_repo_ids) ==
    [m \in model_repo_ids |-> Put(EmptyDict, "status", "candidate")]

\* evaluate_myx_board, one task: update_results({task.name: results}) with
\* results = response.json().get('results', {}); the outer key is the task
\* name, which is no key of self.results, so the first inner assignment
\* raises KeyError; an empty payload assigns nothing
EvaluateMyxBoardCall(results, shape) ==
    [raised |-> shape # "absent", results |-> results]

EvaluateMyxBoard(shape) ==
    /\ apiResults' = EvaluateMyxBoardCall(apiResults, shape).results
    /\ UNCHANGED <<cli, stored, reply, board, remote, jobs, poll>>

\* evaluate_task with an immediate answer (no 'job_id'):
\* board.update_results(data['results'])
EvaluateTaskCall(results, shape) == ApiUpdateResults(results, shape)

EvaluateTask(shape) ==
    /\ apiResults' = EvaluateTaskCall(apiResults, shape).results
    /\ UNCHANGED <<cli, stored, reply, board, remote, jobs, poll>>

\* cycle: the parity of the number of time.sleep(5) the loop has made
IdlePoll == [pc |-> "idle", job |-> NoJob, cycle |-> 0]

\* handle_long_running_task(job_id, board, task) is entered
StartPolling(j) ==
    /\ poll.pc # "polling"
    /\ jobs[j] # "none"
    /\ poll' = [pc |-> "polling", job |-> j, cycle |-> 0]
    /\ UNCHANGED <<cli, stored, reply, board, remote, jobs, apiResults>>

\* one iteration of its "while True" loop, from the loop's state p, the
\* jobs of the service and the board's results: the loop's next state and
\* the results it leaves
PollCall(p, jobTable, results, resp, shape) ==
    IF resp # "ok"
    THEN \* requests raises, or "Error polling job status"
         [poll |-> [p EXCEPT !.pc = "raised"], results |-> results]
    ELSE IF jobTable[p.job] = "completed"
    THEN LET u == ApiUpdateResults(results, shape) IN
         [poll |-> [p EXCEPT !.pc = IF u.raised THEN "raised" ELSE "done"],
          results |-> u.results]
    ELSE IF jobTable[p.job] = "failed"
    THEN [poll |-> [p EXCEPT !.pc = "done"], results |-> results]
    ELSE \* time.sleep(5), then the next iteration
         [poll |-> [p EXCEPT !.cycle = 1 - @], results |-> results]

PollStep(resp, shape) ==
    /\ poll.pc = "polling"
    /\ poll' = PollCall(poll, jobs, apiResults, resp, shape).poll
    /\ apiResults' = PollCall(poll, jobs, apiResults, resp, shape).results
    /\ UNCHANGED <<cli, stored, reply, board, remote, jobs>>

-----------------------------------------------------------------------------
(* cli/commands.py: deploy_model, and cli/deployment_actions.py *)

DeployActions == {"up", "down", "invalid_action"}

\* api.deploy_model returns (None: it has no return statement) or raises
DeployResponses == {"returns", "exception"}

\* handle_deployment_action: the exception it raises, what it prints, and
\* the calls it has made
HandleDeploymentAction(action, resp) ==
    IF action \notin {"up", "down"}
    THEN [raised |-> "ValueError", printed |-> "", calls |-> {}]
    ELSE IF resp = "exception"
    THEN [raised |-> "Exception", printed |-> "", calls |-> {"deploy_model"}]
    ELSE \* response is None: the "failed" branch
         [raised |-> "none", printed |-> "deployment action failed",
          calls |-> {"deploy_model"}]

\* the command deploy_model: every exception of the handler is caught and
\* echoed, the callback returns, and click exits with code 0
DeployModelCommand(action, resp) ==
    LET h == HandleDeploymentAction(action, resp) IN
    [ran |-> TRUE, action |-> action, failed |-> h.raised # "none",
     output |-> IF h.raised # "none" THEN "Error deploying model" ELSE h.printed,
     exit_code |-> 0, calls |-> h.calls]

NotRun == [ran |-> FALSE, action |-> "", failed |-> FALSE, output |-> "",
           exit_code |-> 0, calls |-> {}]

DeployModel(action, resp) ==
    /\ cli' = DeployModelCommand(action, resp)
    /\ UNCHANGED <<board, remote, jobs, poll, apiResults, reply, stored>>

-----------------------------------------------------------------------------
(* utils/myxboard.py: sanitize_float, format_benchmark_results_for_storage *)

\* metric values: a float, an int, or a dict of metric values
FloatVal(x) == [kind |-> "float", val |-> x, items |-> EmptyDict]
IntVal(x) == [kind |-> "int", val |-> x, items |-> EmptyDict]
DictVal(items) == [kind |-> "dict", val |-> "", items |-> items]

NonFinite == {"nan", "inf", "-inf"}

SanitizeFloat(value) ==
    IF value.kind = "float" /\ value.val \in NonFinite THEN FloatVal("0.0") ELSE value

\* the comprehension "model_results": a dict value has its own values
\* sanitized, any other value is sanitized itself
ModelResults(metrics) ==
    [key \in DOMAIN metrics |->
        IF metrics[key].kind = "dict"
        THEN DictVal([k \in DOMAIN metrics[key].items |-> SanitizeFloat(metrics[key].items[k])])
        ELSE SanitizeFloat(metrics[key])]

\* the entries of eval_results["benchmark"]: "model" ("": missing) and the
\* other keys of the entry
ModelEvals ==
    { [model |-> "m1", metrics |-> ("acc" :> FloatVal("0.5"))],
      [model |-> "m1", metrics |-> ("acc" :> FloatVal("nan"))],
      [model |-> "m2", metrics |-> ("arc" :> DictVal(("acc" :> FloatVal("inf")) @@ ("f1" :> FloatVal("0.5"))))],
      [model |-> "m2", metrics |-> ("arc" :> DictVal("sub" :> DictVal("acc" :> FloatVal("-inf"))))],
      [model |-> "", metrics |-> ("acc" :> FloatVal("0.5"))],
      [model |-> "m1", metrics |-> (("n" :> IntVal("1")) @@ ("arc" :> DictVal("acc" :> FloatVal("0.5"))))] }

BenchmarkLists == UNION {[1..n -> ModelEvals] : n \in 0..MaxEvals}

\* the entries the loop does not skip: those with a model name
RECURSIVE Named(_)
Named(benchmark) ==
    IF benchmark = <<>> THEN <<>>
    ELSE (IF Head(benchmark).model = "" THEN <<>> ELSE <<Head(benchmark)>>)
         \o Named(Tail(benchmark))

\* format_benchmark_results_for_storage, for eval_results with or without
\* the key "benchmark"
FormatBenchmarkResultsForStorage(hasBenchmark, benchmark) ==
    IF ~hasBenchmark THEN <<>>
    ELSE [i \in DOMAIN Named(benchmark) |->
            [model_name |-> Named(benchmark)[i].model,
             results |-> ModelResults(Named(benchmark)[i].metrics)]]

\* the entries of eval_results["models"] of a ranked match: "model" and
\* "rank"
MatchEvals ==
    { [model |-> "m1", metrics |-> ("rank" :> IntVal("1"))],
      [model |-> "m2", metrics |-> ("rank" :> IntVal("2"))] }

MatchLists == UNION {[1..n -> MatchEvals] : n \in 0..MaxEvals}

\* format_myxmatch_results_for_storage, for eval_results with or without the
\* key "models"
FormatMyxmatchResultsForStorage(hasModels, models) ==
    IF ~hasModels THEN <<>>
    ELSE [i \in DOMAIN models |->
            [model_name |-> models[i].model,
             results |-> ("myxmatch|general|0" :>
                             DictVal("rank" :> models[i].metrics["rank"]))]]

\* the values of task_name: the two the dispatcher knows and one it does not
TaskKinds == {"myxmatch", "benchmark", "lighteval_arithmetic"}

\* format_results_for_storage: the list it returns; an unsupported task type
\* is logged and answered with []
FormatResultsForStorage(task_name, hasKey, payload) ==
    IF task_name = "myxmatch" THEN FormatMyxmatchResultsForStorage(hasKey, payload)
    ELSE IF task_name = "benchmark" THEN FormatBenchmarkResultsForStorage(hasKey, payload)
    ELSE <<>>

NothingStored == [task_name |-> "", given |-> <<>>, formatted |-> <<>>]

FormatResults(task_name, hasKey, payload) ==
    /\ stored' = [task_name |-> task_name,
                  given |-> IF hasKey THEN payload ELSE <<>>,
                  formatted |-> FormatResultsForStorage(task_name, hasKey, payload)]
    /\ UNCHANGED <<board, remote, jobs, poll, apiResults, reply, cli>>

FormatBenchmark(hasBenchmark, benchmark) ==
    /\ stored' = [task_name |-> "benchmark",
                  given |-> IF hasBenchmark THEN benchmark ELSE <<>>,
                  formatted |-> FormatBenchmarkResultsForStorage(hasBenchmark, benchmark)]
    /\ UNCHANGED <<board, remote, jobs, poll, apiResults, reply, cli>>

-----------------------------------------------------------------------------
(* api/myxboard.py and api/tasks.py: what a request function returns *)

ClientOps ==
    {"store_myxboard", "list_myxboards", "update_myxboard", "delete_myxboard",
     "download_myxboard", "run_myxmatch", "run_benchmark", "get_job_status"}

\* the answer of the service: the success status of the function with a
\* JSON body, the success status with a body that is not JSON, another status
HttpOutcomes == {"success", "malformed", "failure"}

\* the values a request function can end with: the decoded payload,
\* {"error": "Invalid JSON response"}, {"error": "Failed to ..."},
\* {"status": "error", "message": ...} with the message of the parse error,
\* of the request exception or of the HTTP error, or the decoding exception
\* leaving the function.  response.json() raises a ValueError that is also a
\* RequestException from requests 2.27 on, and the package does not pin
\* requests: get_job_status answers it by either handler.
ClientAnswers(op, http) ==
    IF http = "success" THEN {"payload"}
    ELSE IF http = "failure"
    THEN IF op = "get_job_status" THEN {"status_error_http"} ELSE {"error_failed"}
    ELSE IF op \in {"store_myxboard", "list_myxboards"} THEN {"raises"}
    ELSE IF op = "get_job_status" THEN {"status_error_parse", "status_error_request"}
    ELSE {"error_invalid_json"}

NoReply == [op |-> "", http |-> "", value |-> ""]

ClientRequest(op, http) ==
    /\ \E value \in ClientAnswers(op, http) :
          reply' = [op |-> op, http |-> http, value |-> value]
    /\ UNCHANGED <<board, remote, jobs, poll, apiResults, cli, stored>>

-----------------------------------------------------------------------------
(* The specification *)

Init ==
    /\ board = [b \in Handles |-> NoBoard]
    /\ remote = [k \in Keys |-> AbsentRecord]
    /\ jobs = [j \in JobNames |-> "none"]
    /\ poll = IdlePoll
    /\ apiResults = InitializeResults(ApiModels)
    /\ cli = NotRun
    /\ stored = NothingStored
    /\ reply = NoReply

Next ==
    \/ \E b \in Handles, ids \in InputModelLists, name \in Names \cup {NoName} :
          \E net \in IF name = NoName \/ ValidateModels(ids) # <<>>
                     THEN {AllOk} ELSE ConstructNets :
             Construct(b, ids, name, net.list, net.download, net.store)
    \/ \E b \in Handles, resp \in Responses : Save(b, resp)
    \/ \E b \in Handles, resp \in Responses : Delete(b, resp)
    \/ \E b \in Handles, tasks \in TaskLists, prompt \in Prompts :
          \E resp \in IF prompt = "" \/ MYXMATCH \notin Range(tasks)
                      THEN {"ok"} ELSE Responses :
             Evaluate(b, tasks, prompt, resp)
    \/ \E b \in Handles, resp \in {"ok", "error"} : CheckJobStatus(b, resp)
    \/ \E b \in Handles, task \in Tasks, resp \in Responses :
          UpdateResults(b, task, PayloadRanked, resp)
    \/ \E b \in Handles, task_names \in Filters, net \in GetResultsNets :
          GetResults(b, task_names, net.status, net.fetch, net.payload, net.update)
    \/ \E j \in JobNames : JobAdvance(j)

Spec == Init /\ [][Next]_vars

\* The store under every answer to construction, save, delete and update,
\* beside ranked-match jobs whose requests are all answered
NextStore ==
    \/ \E b \in Handles, ids \in InputModelLists, name \in Names \cup {NoName} :
          \E net \in IF name = NoName \/ ValidateModels(ids) # <<>>
                     THEN {AllOk} ELSE ConstructNets :
             Construct(b, ids, name, net.list, net.download, net.store)
    \/ \E b \in Handles, resp \in Responses : Save(b, resp)
    \/ \E b \in Handles, resp \in Responses : Delete(b, resp)
    \/ \E b \in Handles, prompt \in Prompts : Evaluate(b, <<MYXMATCH>>, prompt, "ok")
    \/ \E b \in Handles, task \in Tasks, resp \in Responses :
          UpdateResults(b, task, PayloadRanked, resp)
    \/ \E b \in Handles, task_names \in {<<>>, <<MYXMATCH>>} :
          GetResults(b, task_names, "ok", "ok", PayloadRanked, "ok")
    \/ \E j \in JobNames : JobAdvance(j)

SpecStore == Init /\ [][NextStore]_vars

PollInputs == {<<Phi>>, <<HfQwen, Phi>>}

\* A board whose name is assigned after construction
NextName ==
    \/ \E b \in Handles, ids \in PollInputs :
          Construct(b, ids, NameSlash, "ok", "ok", "ok")
    \/ \E b \in Handles, name \in AssignedNames : SetName(b, name)
    \/ \E b \in Handles : Evaluate(b, <<MYXMATCH>>, "p", "ok")
    \/ \E b \in Handles, resp \in Responses : Save(b, resp)
    \/ \E b \in Handles, resp \in Responses : Delete(b, resp)
    \/ \E b \in Handles, task_names \in {<<>>, <<MYXMATCH>>} :
          GetResults(b, task_names, "ok", "ok", PayloadRanked, "ok")
    \/ \E j \in JobNames : JobAdvance(j)

SpecName == Init /\ [][NextName]_vars

\* The command line and the formatters
NextTools ==
    \/ \E action \in DeployActions, resp \in DeployResponses : DeployModel(action, resp)
    \/ \E hasBenchmark \in BOOLEAN, benchmark \in BenchmarkLists :
          FormatBenchmark(hasBenchmark, benchmark)
    \/ \E op \in ClientOps, http \in HttpOutcomes : ClientRequest(op, http)
    \/ \E task_name \in TaskKinds, hasKey \in BOOLEAN :
          \E payload \in (IF task_name = "benchmark" THEN BenchmarkLists ELSE MatchLists) :
              FormatResults(task_name, hasKey, payload)

SpecTools == Init /\ [][NextTools]_vars

\* One ranked-match job followed by the polling loop and by the client
NextPoll ==
    \/ \E b \in Handles, ids \in PollInputs :
          Construct(b, ids, NameSlash, "ok", "ok", "ok")
    \/ \E b \in Handles : Evaluate(b, <<MYXMATCH>>, "p", "ok")
    \/ \E b \in Handles : CheckJobStatus(b, "ok")
    \/ \E b \in Handles : UpdateResults(b, MYXMATCH, PayloadRanked, "ok")
    \/ \E b \in Handles, task_names \in Filters :
          GetResults(b, task_names, "ok", "ok", PayloadRanked, "ok")
    \/ \E j \in JobNames : JobAdvance(j)
    \/ \E j \in JobNames : StartPolling(j)
    \/ \E resp \in {"ok", "error"}, shape \in ApiResultShapes : PollStep(resp, shape)
    \/ \E shape \in ApiResultShapes : EvaluateMyxBoard(shape)
    \/ \E shape \in ApiResultShapes : EvaluateTask(shape)

\* the loop of handle_long_running_task runs on: an iteration whose status
\* query is answered is eventually taken; nothing makes a query fail
PolledAgain == \E shape \in ApiResultShapes : PollStep("ok", shape)

SpecPollFair == Init /\ [][NextPoll]_vars /\ WF_vars(PolledAgain)

SpecPoll == Init /\ [][NextPoll]_vars

-----------------------------------------------------------------------------
(* Reading states and returned values *)

Alive == {b \in Handles : board[b].alive}

\* JSON null and {} are taken as the same stored results
Norm(res) == IF res.isNone THEN EmptyResults ELSE res

\* the remote record of the board equals its local snapshot
Converged(brec, rem) ==
    LET rec == rem[SanitizeName(brec.name)] IN
    /\ rec.exists
    /\ rec.models = brec.models
    /\ Norm(rec.results) = Norm(brec.results)

\* what a value returned by get_results holds for a task: with a filter the
\* entry of the task; without one the cached result of the task or, failing
\* that, its entry {job_name, status} in the returned job table
Absent == Entry("absent", "", NoJob, <<>>)

OutEntry(out, task) ==
    IF out.kind = "filtered"
    THEN Get(out.entries, task, Absent)
    ELSE IF out.kind = "all"
    THEN IF task \in DOMAIN out.all.cached
         THEN Entry("result", "", NoJob, out.all.cached[task])
         ELSE IF task \in DOMAIN out.all.js
         THEN Entry("descriptor", out.all.js[task].status, out.all.js[task].job_name, <<>>)
         ELSE Absent
    ELSE Absent

\* the tasks of a board whose tracked job the service reports in one of the
\* given statuses
ValidInputs == {ids \in InputModelLists : Unsupported(ids) = <<>>}

\* the states a second MyxBoard instance of the same name can be in: built
\* from the record as it is now, and with a result of its own cached whose
\* push the service refused (logged by _save_updates, not raised)
SecondInstances(brec) ==
    LET fresh == {ConstructCall(NoBoard, remote, ids, brec.name, "ok", "ok", "ok").board :
                     ids \in ValidInputs}
    IN fresh \cup
       {UpdateResultsCall(o, remote, LIGHTEVAL_ARITHMETIC, p, "error").board :
            o \in fresh, p \in Payloads}

\* evaluate_task calls handle_long_running_task on the caller's own stack:
\* the caller has control again only when the loop has left "while True"
EvaluateTaskReturned == poll.pc # "polling"

TasksWithJobIn(brec, statuses) ==
    {t \in DOMAIN JobTable(brec.results) :
        /\ brec.results.js[t].job_name \in JobNames
        /\ jobs[brec.results.js[t].job_name] \in statuses}

-----------------------------------------------------------------------------
(* Claims *)

\* C1 (as stated): constructing a board from a list with at least one
\* unsupported model raises a validation error whose message names every
\* unsupported model of the list.
C1_NamesEveryUnsupported ==
    \A b \in Handles, ids \in InputModelLists, name \in Names :
        Unsupported(ids) # <<>> =>
            LET r == ConstructCall(board[b], remote, ids, name, "ok", "ok", "ok") IN
            /\ r.raised = "ValueError"
            /\ Range(r.named) = Range(Unsupported(ids))

\* C2 (as stated): constructing a board from a list of supported models
\* succeeds and leaves board.models equal to the input list, whatever the
\* remote store holds.
C2_ModelsAreInput ==
    \A b \in Handles, ids \in ValidInputs, name \in Names :
        LET r == ConstructCall(board[b], remote, ids, name, "ok", "ok", "ok") IN
        /\ r.raised = "none"
        /\ r.board.alive
        /\ r.board.models = ids

\* C2 (amended): constructing a board from a list of supported models and a
\* name succeeds unless the download or the create request raises; then
\* board.models is the input list, in input order, when the listing shows no
\* board of the same sanitized name (or the listing fails), and the models
\* of the remote record when it shows one.
C2_ModelsInputOrRecord ==
    \A b \in Handles, ids \in ValidInputs, name \in Names, net \in ConstructNets :
        LET r == ConstructCall(board[b], remote, ids, name,
                               net.list, net.download, net.store)
            key == SanitizeName(name)
            listed == net.list = "ok" /\ remote[key].exists
        IN /\ r.raised = "none" <=> (IF listed THEN net.download ELSE net.store) # "exception"
           /\ r.raised = "none" =>
                /\ r.board.alive
                /\ r.board.models = IF listed THEN remote[key].models ELSE ids

\* a board was built from the two-model list in its input order, with the
\* record created from it
C2_Witness ==
    \E b \in Alive :
        /\ board[b].models = <<HfQwen, Phi>>
        /\ remote[SanitizeName(board[b].name)].exists
        /\ remote[SanitizeName(board[b].name)].models = <<HfQwen, Phi>>

\* C3 (as stated): every constructed board has a non-empty models list, and
\* constructing with an empty or absent list raises a validation error
\* without creating a remote record.
C3_NonEmptyModels ==
    /\ \A b \in Alive : board[b].models # <<>>
    /\ \A b \in Handles, name \in Names :
          LET r == ConstructCall(board[b], remote, <<>>, name, "ok", "ok", "ok") IN
          /\ r.raised = "ValueError"
          /\ r.rem = remote

\* C4 (as stated): update_results, RemyxAPI.evaluate, RemyxAPI.check_job_status
\* and get_results, when they return having changed the board's local state,
\* have pushed the snapshot: the remote record equals the local state.
C4_MutationsArePushed ==
    \A b \in Alive :
        /\ \A tasks \in TaskLists, prompt \in Prompts :
              LET r == EvaluateCall(board[b], jobs, tasks, prompt, "ok") IN
              (r.raised = "none" /\ r.board # board[b]) => Converged(r.board, remote)
        /\ LET r == CheckJobStatusCall(board[b], jobs, "ok") IN
              (r.raised = "none" /\ r.board # board[b]) => Converged(r.board, remote)
        /\ \A task \in Tasks :
              LET r == UpdateResultsCall(board[b], remote, task, PayloadRanked, "ok") IN
              (r.raised = "none" /\ r.board # board[b]) => Converged(r.board, r.rem)
        /\ \A task_names \in Filters :
              LET r == GetResultsCall(board[b], remote, jobs, task_names,
                                      "ok", "ok", PayloadRanked, "ok") IN
              (r.raised = "none" /\ r.board # board[b]) => Converged(r.board, r.rem)

\* C5 (as stated): two get_results calls in a row, every request answered,
\* return the same value, and neither call changes the board or the remote
\* record.
C5_ReadsMutateNothing ==
    \A b \in Alive, task_names \in Filters :
        LET r1 == GetResultsCall(board[b], remote, jobs, task_names,
                                 "ok", "ok", PayloadRanked, "ok")
            r2 == GetResultsCall(r1.board, r1.rem, jobs, task_names,
                                 "ok", "ok", PayloadRanked, "ok")
        IN (r1.raised = "none" /\ r2.raised = "none") =>
              /\ r2.out = r1.out
              /\ r1.board = board[b] /\ r2.board = board[b]
              /\ r1.rem = remote /\ r2.rem = remote

\* C6 (as stated): once the job submitted for a task is reported completed,
\* get_results (every request answered) returns a result entry for the task,
\* not a status descriptor, and leaves the task's job_status entry completed.
C6_CompletedJobYieldsResult ==
    \A b \in Alive : \A task \in TasksWithJobIn(board[b], CompletedStatuses) :
        \A task_names \in {<<>>, <<task>>} :
            LET r == GetResultsCall(board[b], remote, jobs, task_names,
                                    "ok", "ok", PayloadRanked, "ok") IN
            /\ r.raised = "none"
            /\ OutEntry(r.out, task).kind = "result"
            /\ r.board.results.js[task].status \in CompletedStatuses

\* get_results, every request answered, returns a status descriptor and not a
\* result for every task whose tracked job the service reports running
RunningJobYieldsDescriptor ==
    \A b \in Alive : \A task \in TasksWithJobIn(board[b], {"running"}) :
        \A task_names \in {<<>>, <<task>>} :
            LET r == GetResultsCall(board[b], remote, jobs, task_names,
                                    "ok", "ok", PayloadRanked, "ok") IN
            /\ r.raised = "none"
            /\ OutEntry(r.out, task).kind = "descriptor"

\* a step that leaves the polled job running leaves the loop polling
LoopKeepsPolling ==
    (/\ poll.pc = "polling"
     /\ jobs[poll.job] = "running"
     /\ jobs'[poll.job] = "running") => poll'.pc = "polling"

\* C7 (as stated): for as long as a tracked job's remote status stays
\* "running", the polling loop has not terminated, and every get_results
\* call returns for the task the status descriptor {status, job_name} and
\* never a result.
C7_RunningJobKeepsPolling ==
    []RunningJobYieldsDescriptor /\ [][LoopKeepsPolling]_vars

\* C8 (as stated): get_results, with or without a filter, returns a status
\* descriptor {status, job_name}, not a result, for every task whose job is
\* still pending or running, and the cached result for every task that has
\* one.  (It never waits: GetResultsCall is one pass without a loop on the
\* job's status.)
C8_DescriptorWhileInFlight ==
    \A b \in Alive, task_names \in Filters :
        LET r == GetResultsCall(board[b], remote, jobs, task_names,
                                "ok", "ok", PayloadRanked, "ok")
            asked == IF task_names = <<>> THEN Tasks ELSE Range(task_names)
        IN r.raised = "none" =>
              /\ \A task \in asked \cap TasksWithJobIn(board[b], {"pending", "running"}) :
                    OutEntry(r.out, task).kind = "descriptor"
              /\ \A task \in asked \cap DOMAIN board[b].results.cached :
                    OutEntry(r.out, task) = Entry("result", "", NoJob, board[b].results.cached[task])

\* the models of a ranked-match payload are in ascending order of rank
AscendingByRank(models, payload) ==
    \A i, j \in DOMAIN models :
        i < j => \A x, y \in DOMAIN payload :
                    (payload[x].model = models[i] /\ payload[y].model = models[j])
                        => payload[x].rank <= payload[y].rank

\* C9 (as stated): update_results with ranked-match results returns having
\* re-sorted board.models ascending by the reported rank; the results
\* [{model A, rank 2}, {model B, rank 1}] leave the models [B, A].
C9_UpdateResultsReorders ==
    \A b \in Alive : ~board[b].results.isNone =>
        \A payload \in Payloads :
            LET r == UpdateResultsCall(board[b], remote, MYXMATCH, payload, "ok") IN
            /\ r.raised = "none"
            /\ AscendingByRank(r.board.models, payload)
            /\ payload = PayloadRanked => r.board.models = <<Qwen, Phi>>

\* C10 (as stated): after save() returns, a new MyxBoard of the same name
\* (every request of its construction answered) has the models, results and
\* job_status of the saved board.
C10_SaveThenReconstruct ==
    \A b \in Alive, resp \in Responses, ids \in ValidInputs :
        LET s == SaveCall(board[b], remote, resp)
            r == ConstructCall(NoBoard, s.rem, ids, board[b].name, "ok", "ok", "ok")
        IN s.raised = "none" =>
              /\ r.raised = "none"
              /\ r.board.models = board[b].models
              /\ Norm(r.board.results) = Norm(board[b].results)
              /\ r.board.job_status = board[b].job_status

\* C11 (as stated): in every reachable board state no task name has both a
\* cached result and a job_status entry that is still pending or running.
C11_CachedOrInFlight ==
    \A b \in Alive : \A task \in DOMAIN board[b].results.cached :
        task \in DOMAIN JobTable(board[b].results) =>
            board[b].results.js[task].status \notin {"pending", "running"}

\* C12 (as stated): construction sends a create request only when the store
\* holds no board of the same sanitized name; when it holds one, no create is
\* sent and the local models, results and job_status are those of the record.
C12_CreateOnlyWhenAbsent ==
    \A b \in Handles, ids \in ValidInputs, name \in Names, net \in ConstructNets :
        LET r == ConstructCall(board[b], remote, ids, name,
                               net.list, net.download, net.store)
            rec == remote[SanitizeName(name)]
        IN /\ "store" \in r.calls => ~rec.exists
           /\ (rec.exists /\ r.raised = "none") =>
                /\ r.board.models = rec.models
                /\ r.board.results = rec.results
                /\ r.board.job_status = EmptyDict

C14_OneJobPerTask ==
    \A b \in Alive, tasks \in TaskLists :
        FreeJobs # {} =>
            LET r == EvaluateCall(board[b], jobs, tasks, "p", "ok") IN
            r.raised = "none" =>
                /\ \A task \in Range(tasks) :
                      /\ task \in DOMAIN JobTable(r.board.results)
                      /\ r.board.results.js[task].status = "pending"
                      /\ r.board.results.js[task].job_name \in FreeJobs
                      /\ r.jobs[r.board.results.js[task].job_name] = "pending"
                /\ \A t1, t2 \in Range(tasks) :
                      t1 # t2 => r.board.results.js[t1].job_name # r.board.results.js[t2].job_name

\* C15 (as stated): when the service answers a job submission with a
\* non-success response, RemyxAPI.evaluate raises to its caller and records
\* no pending job_status entry for the task (none with an absent job_name).
C15_FailedSubmissionSurfaces ==
    \A b \in Alive : ~board[b].results.isNone =>
        LET r == EvaluateCall(board[b], jobs, <<MYXMATCH>>, "p", "error") IN
        /\ r.raised # "none"
        /\ JobTable(r.board.results) = JobTable(board[b].results)
        /\ \A task \in DOMAIN JobTable(r.board.results) :
              r.board.results.js[task].job_name # NoJob

\* C16 (as stated): after delete() returns without raising the store holds
\* no record of the board's sanitized name, and when the delete request fails
\* delete() raises instead of returning.
C16_DeleteRemovesOrRaises ==
    \A b \in Alive, resp \in Responses :
        LET r == DeleteCall(board[b], remote, resp) IN
        /\ r.raised = "none" => ~r.rem[SanitizeName(board[b].name)].exists
        /\ resp # "ok" => r.raised # "none"

\* C17 (as stated): a remote failure is never swallowed: when the update
\* request fails during save(), or the listing fails during construction,
\* the operation raises to its caller instead of returning.
C17_RemoteFailureSurfaces ==
    /\ \A b \in Alive, resp \in Responses \ {"ok"} :
          SaveCall(board[b], remote, resp).raised # "none"
    /\ \A b \in Handles, ids \in ValidInputs, name \in Names :
          ConstructCall(board[b], remote, ids, name, "error", "ok", "ok").raised # "none"

\* the call returned and every model of the payload has its value under the
\* task's name
Recorded(u) ==
    /\ ~u.raised
    /\ \A m \in ApiModels :
          "3.0" \in {Get(u.results[m], "MYXMATCH", ""), Get(u.results[m], "myxmatch", "")}

\* C18 (as stated): once an evaluation of a board on a task finishes -
\* evaluate_myx_board or evaluate_task with an immediate answer, or
\* handle_long_running_task when the polled status is completed - with a
\* results payload that gives one value per model, board.results[m][task]
\* is the value returned for every model m of the payload.
C18_PayloadRecorded ==
    /\ Recorded(EvaluateMyxBoardCall(apiResults, "flat"))
    /\ Recorded(EvaluateTaskCall(apiResults, "flat"))
    /\ (poll.pc = "polling" /\ jobs[poll.job] = "completed") =>
          Recorded(ApiUpdateResults(apiResults, "flat"))

\* C19 (as stated): a CLI command whose handler fails - deploy_model with an
\* action other than up or down - prints the error and exits with a non-zero
\* exit code, and the underlying deploy call is not made.
C19_FailedCommandExitsNonZero ==
    /\ (cli.ran /\ cli.failed) =>
          /\ cli.output = "Error deploying model"
          /\ cli.exit_code # 0
    /\ (cli.ran /\ cli.action \notin {"up", "down"}) =>
          /\ cli.failed
          /\ "deploy_model" \notin cli.calls

\* a metric value with every NaN, Infinity and -Infinity below it, at any
\* depth, replaced by 0.0
RECURSIVE DeepSanitized(_)
DeepSanitized(value) ==
    IF value.kind = "dict"
    THEN DictVal([k \in DOMAIN value.items |-> DeepSanitized(value.items[k])])
    ELSE IF value.kind = "float" /\ value.val \in NonFinite THEN FloatVal("0.0")
    ELSE value

\* C20 (as stated): the benchmark formatter stores every metric value that
\* is NaN, Infinity or -Infinity as 0.0, at every nesting depth of a model's
\* metrics, and stores a result whose metric values are all finite unchanged.
C20_NonFiniteStoredAsZero ==
    stored.task_name = "benchmark" =>
    \A i \in DOMAIN stored.formatted :
        LET given == Named(stored.given)[i].metrics IN
        /\ DOMAIN stored.formatted[i].results = DOMAIN given
        /\ \A key \in DOMAIN given :
              stored.formatted[i].results[key] = DeepSanitized(given[key])

\* C21 (as stated): in every reachable board state a task whose job_status
\* entry has the completed status has a result cached for it.
C21_CompletedHasResult ==
    \A b \in Alive : \A task \in DOMAIN JobTable(board[b].results) :
        board[b].results.js[task].status \in CompletedStatuses =>
            task \in DOMAIN board[b].results.cached


\* C22 (as stated): a failed status query during polling - a non-success
\* answer or a network exception - never ends the polling loop or raises to
\* the caller: the loop is still polling the job afterwards, and the client's
\* own query answers the status "error".
C22_FailedQueryIsTransient ==
    /\ poll.pc = "polling" =>
          \A resp \in Responses \ {"ok"}, shape \in ApiResultShapes :
              PollCall(poll, jobs, apiResults, resp, shape).poll.pc = "polling"
    /\ \A j \in JobNames, resp \in Responses \ {"ok"} :
          GetJobStatus(jobs, j, resp) = "error"


C24_SubmissionDoesNotWait ==
    /\ \A b \in Alive, tasks \in TaskLists, prompt \in Prompts :
          LET r == EvaluateCall(board[b], jobs, tasks, prompt, "ok") IN
          \A j \in JobNames : r.jobs[j] # jobs[j] => r.jobs[j] = "pending"
    /\ (poll.pc = "polling" /\ jobs[poll.job] \notin TerminalStatuses)
          => EvaluateTaskReturned


C26_UnknownKindIsAnError ==
    stored.task_name \in TaskKinds \ {"myxmatch", "benchmark"} =>
        \A kind \in {"myxmatch", "benchmark"} :
            stored.formatted # FormatResultsForStorage(kind, FALSE, <<>>)


\* C27 (as stated): a request function that receives its success status
\* with a body that is not JSON returns an explicit invalid-response marker,
\* which is not a value it returns for a non-success status, and does not
\* raise.
C27_MalformedBodyIsMarked ==
    reply.http = "malformed" =>
        /\ reply.value \in {"error_invalid_json", "status_error_parse"}
        /\ reply.value \notin ClientAnswers(reply.op, "failure")


\* every element occurs as often in one list as in the other
Count(x, list) == Cardinality({i \in DOMAIN list : list[i] = x})

IsPermutation(a, b) ==
    /\ Len(a) = Len(b)
    /\ \A x \in Range(a) \cup Range(b) : Count(x, a) = Count(x, b)

\* C28 (as stated): reordering by rank leaves a permutation of the models
\* the board had before - for a result that ranks some, all or none of them:
\* both for the list _reorder_models_by_results computes from the result and
\* for the models update_results leaves on the board.
C28_ReorderIsPermutation ==
    \A b \in Alive : (~board[b].results.isNone /\ board[b].models # <<>>) =>
        \A payload \in Payloads \cup {<<>>} :
            /\ IsPermutation(ReorderModelsByResults(MYXMATCH :> payload, MYXMATCH),
                             board[b].models)
            /\ IsPermutation(UpdateResultsCall(board[b], remote, MYXMATCH, payload, "ok").board.models,
                             board[b].models)


\* C29 (as stated): _fetch_evaluation_results changes the cached results and
\* the job table only when the download gave a payload and the save that
\* follows went through; when either fails, both are as they were.
C29_FailedFetchChangesNothing ==
    \A b \in Alive : \A task \in DOMAIN JobTable(board[b].results) :
        \A rFetch \in FetchResponses, payload \in Payloads, rSave \in Responses :
            LET f == FetchEvaluationResults(
                         [res |-> board[b].results, rem |-> remote, calls |-> {}],
                         SanitizeName(board[b].name), board[b].models,
                         task, rFetch, payload, rSave)
            IN (rFetch # "ok" \/ rSave # "ok") => f.res = board[b].results


\* C30 (as stated): the key under which RemyxAPI.evaluate submits the job of
\* a board - run_myxmatch's encoding of board.name - is the sanitized name
\* the board uses to create, update, download, delete and fetch, also after
\* board.name has been assigned on the constructed board.
C30_OneKeyPerBoard ==
    \A b \in Alive : RunMyxmatchKey(board[b]) = board[b].sanitized_name

====
